---- MODULE Spec2Model ----
(***************************************************************************)
(* N-body simulation engine (kernel.cu): scene initialisation, force       *)
(* evaluation, integration, export and teardown, with the host thread and   *)
(* the device's default stream as concurrent processes.                     *)
(*                                                                         *)
(* Numbers.  The program computes in IEEE floats; the model computes on     *)
(* fixed-point lattices, one integer per float:                             *)
(*   random components   in units of 1/RandRes                              *)
(*   positions           in units of 1/PosRes                               *)
(*   velocities, accelerations and G*mass in units of 1/FineRes             *)
(*   time steps          in units of 1/DtRes                                *)
(* Every division truncates toward zero and every square root is the        *)
(* integer square root, so results are rounded as floats are, only more     *)
(* coarsely.  A vector is a triple <<x, y, z>> or the value NaNVec, which   *)
(* is what glm::normalize returns for the zero vector (0 * inf).            *)
(***************************************************************************)
EXTENDS Integers, Naturals, Sequences, FiniteSets, TLC

\* ------------------------------------------------------------------------
\* Bounds of the model
\* ------------------------------------------------------------------------
MaxN == 2
MaxTicks == 1

\* ------------------------------------------------------------------------
\* Lattice resolutions
\* ------------------------------------------------------------------------
RandRes == 4 * 100            \* random components: 1/400
PosRes == 2 * 2               \* positions: 1/4
SubRes == 2 * 4               \* lengths (sqrt results): 1/(PosRes * SubRes)
MilliRes == 10 * 100          \* unit vectors and speeds: 1/1000
FineRes == MilliRes * MilliRes \* velocities, accelerations, G * mass: 1/1000000
DtRes == 2 * 5                \* time steps: 1/10

\* ------------------------------------------------------------------------
\* Integer helpers
\* ------------------------------------------------------------------------
Abs(a) == IF a < 0 THEN -a ELSE a

\* C division of floats rounded onto the lattice: truncation toward zero.
Quot(a, b) == IF (a < 0) = (b < 0) THEN Abs(a) \div Abs(b) ELSE -(Abs(a) \div Abs(b))

RECURSIVE SqrtSearch(_, _, _)
SqrtSearch(n, lo, hi) ==
    IF lo >= hi THEN lo
    ELSE LET mid == (lo + hi + 1) \div 2
         IN IF mid <= n \div mid THEN SqrtSearch(n, mid, hi) ELSE SqrtSearch(n, lo, mid - 1)

\* sqrt: the largest s with s*s <= n.
ISqrt(n) == IF n <= 0 THEN 0 ELSE SqrtSearch(n, 1, IF n < 46340 THEN n ELSE 46340)

\* ------------------------------------------------------------------------
\* unsigned int arithmetic: a 32-bit word is <<high half, low half>>
\* ------------------------------------------------------------------------
Half == 2^16

U32(hi, lo) == <<hi, lo>>

U32Add(a, b) ==
    LET lo == a[2] + b[2]
    IN <<(a[1] + b[1] + lo \div Half) % Half, lo % Half>>

RECURSIVE XorBits(_, _, _)
XorBits(a, b, n) ==
    IF n = 0 THEN 0
    ELSE ((a + b) % 2) + 2 * XorBits(a \div 2, b \div 2, n - 1)

U32Xor(a, b) == <<XorBits(a[1], b[1], 16), XorBits(a[2], b[2], 16)>>

\* a << k for 0 < k < 16
U32Shl(a, k) ==
    <<(a[1] * 2^k + a[2] \div 2^(16 - k)) % Half, (a[2] * 2^k) % Half>>

\* a >> k for 16 <= k < 32
U32Shr(a, k) == <<0, a[1] \div 2^(k - 16)>>

\* (unsigned int) of a non-negative int below 2^31
U32OfInt(n) == <<n \div Half, n % Half>>

hash(a0) ==
    LET a1 == U32Add(U32Add(a0, U32(32469, 23830)), U32Shl(a0, 12))   \* 0x7ed55d16
        a2 == U32Xor(U32Xor(a1, U32(51041, 49724)), U32Shr(a1, 19))   \* 0xc761c23c
        a3 == U32Add(U32Add(a2, U32(5718, 26545)), U32Shl(a2, 5))     \* 0x165667b1
        a4 == U32Xor(U32Add(a3, U32(54178, 25708)), U32Shl(a3, 9))    \* 0xd3a2646c
        a5 == U32Add(U32Add(a4, U32(64880, 18117)), U32Shl(a4, 3))    \* 0xfd7046c5
        a6 == U32Xor(U32Xor(a5, U32(46426, 20233)), U32Shr(a5, 16))   \* 0xb55a4f09
    IN a6

\* ------------------------------------------------------------------------
\* thrust::default_random_engine (minstd_rand) and uniform_real_distribution
\* ------------------------------------------------------------------------
LcgM == 2^30 + (2^30 - 1)          \* modulus 2^31 - 1
LcgA == 48000 + 271                \* multiplier 48271

\* rng(seed): the engine's state after seeding with a 32-bit word.
RngSeed(s) ==
    LET x == IF s[1] < 2^15
             THEN (s[1] * Half + s[2]) % LcgM
             ELSE LET t == (s[1] - 2^15) * Half + s[2]
                  IN IF t = LcgM THEN 1 ELSE (t + 1) % LcgM
    IN IF x = 0 THEN 1 ELSE x

\* One step of the engine, (LcgA * x) mod LcgM, by Schrage's method.
RngNext(x) ==
    LET q == LcgM \div LcgA
        r == LcgM % LcgA
        t == LcgA * (x % q) - r * (x \div q)
    IN IF t > 0 THEN t ELSE t + LcgM

\* unitDistrib(rng) on (-1, 1): (x - min) / (max - min + 1) * 2 - 1, on the lattice.
UnitDistrib(x) ==
    LET cell == (LcgM - 1) \div (2 * RandRes)
        c == (x - 1) \div cell
    IN (IF c > 2 * RandRes THEN 2 * RandRes ELSE c) - RandRes

\* ------------------------------------------------------------------------
\* Configuration
\* ------------------------------------------------------------------------
blockSize == 128
planetMass == 30              \* 3e8, in units of 1e7
starMass == 5000              \* 5e10, in units of 1e7
scene_scale == 100
G == 667                      \* 6.67e-11, in units of 1e-13: G * mass is in 1/FineRes
EPSILON == 1                  \* the smallest positive length of the lattice

\* ------------------------------------------------------------------------
\* glm::vec3
\* ------------------------------------------------------------------------
NaNVec == <<>>
ZeroVec == <<0, 0, 0>>
IsNaN(v) == Len(v) = 0

VAdd(a, b) ==
    IF IsNaN(a) \/ IsNaN(b) THEN NaNVec ELSE <<a[1] + b[1], a[2] + b[2], a[3] + b[3]>>

VSub(a, b) ==
    IF IsNaN(a) \/ IsNaN(b) THEN NaNVec ELSE <<a[1] - b[1], a[2] - b[2], a[3] - b[3]>>

Dot(a, b) == a[1] * b[1] + a[2] * b[2] + a[3] * b[3]

cross(a, b) ==
    <<a[2] * b[3] - a[3] * b[2], a[3] * b[1] - a[1] * b[3], a[1] * b[2] - a[2] * b[1]>>

\* glm::length of a position-lattice vector, in units of 1/(PosRes * SubRes)
length(v) == ISqrt(Dot(v, v) * SubRes * SubRes)

\* glm::distance(a, b) = length(b - a)
distance(a, b) == length(VSub(b, a))

\* glm::normalize(v) = v * inversesqrt(dot(v, v)), in units of 1/MilliRes;
\* the zero vector gives 0 * inf = NaN in every component.
normalize(v) ==
    IF IsNaN(v) \/ Dot(v, v) = 0 THEN NaNVec
    ELSE LET n == ISqrt(Dot(v, v) * SubRes * SubRes)
         IN <<Quot(v[1] * SubRes * MilliRes, n), Quot(v[2] * SubRes * MilliRes, n),
              Quot(v[3] * SubRes * MilliRes, n)>>

\* v * dt for v in 1/FineRes and dt in 1/DtRes, in units of 1/FineRes
VTimesDt(v, dt) ==
    IF IsNaN(v) THEN NaNVec
    ELSE <<Quot(v[1] * dt, DtRes), Quot(v[2] * dt, DtRes), Quot(v[3] * dt, DtRes)>>

\* v * dt for v in 1/FineRes and dt in 1/DtRes, in units of 1/PosRes
VTimesDtPos(v, dt) ==
    LET d == (DtRes * FineRes) \div PosRes
    IN IF IsNaN(v) THEN NaNVec
       ELSE <<Quot(v[1] * dt, d), Quot(v[2] * dt, d), Quot(v[3] * dt, d)>>

\* a * b / c for |b| <= c, without forming a * b
MulDiv(a, b, c) == (a \div c) * b + Quot((a % c) * b, c)

\* ------------------------------------------------------------------------
\* State
\* ------------------------------------------------------------------------
VARIABLES
    hpc,         \* host thread: the statement it executes next
    numObjects,  \* int numObjects
    allocated,   \* the device buffers that exist, among "pos", "vel", "acc"
    dev_pos,     \* device memory behind dev_pos: body index -> vec3
    dev_vel,
    dev_acc,
    vbo,         \* the caller's buffer: body index -> <<x, y, z, w>>
    lastError,   \* the runtime's last error, read and cleared by cudaGetLastError
    diag,        \* what was printed on stderr: <<>> or <<line, msg>>
    ticks,       \* number of stepSimulation calls made
    dt,          \* stepSimulation's argument, in units of 1/DtRes
    stream,      \* default stream: the launched kernels that have not finished
    argOrder,    \* the build's evaluation order of the arguments of glm::vec3(...)
    scene,       \* <<>>: the generator as coded; else the vectors it is taken to return
    posVer,      \* history: body -> how many integrations pos[i] went through (-1: never written)
    velVer,      \* history: the same for vel[i]
    accVer,      \* history: body -> tick of the force evaluation that wrote acc[i] (0: never)
    posHist      \* history: body -> the values written to pos[i], oldest first

vars == <<hpc, numObjects, allocated, dev_pos, dev_vel, dev_acc, vbo, lastError, diag,
          ticks, dt, stream, argOrder, scene, posVer, velVer, accVer, posHist>>

hostVars == <<hpc, numObjects, allocated, lastError, diag, ticks, dt>>
memVars == <<dev_pos, dev_vel, dev_acc, vbo>>
histVars == <<posVer, velVer, accVer, posHist>>
buildVars == <<argOrder, scene>>

Bodies == 0 .. (numObjects - 1)

\* What cudaMalloc'ed memory may hold before it is written.
GarbageVecs == {ZeroVec, <<7 * PosRes, 0 - 7 * PosRes, 7 * PosRes>>}

\* The time steps the caller passes, in units of 1/DtRes.
DtSet == {2, DtRes}

\* ------------------------------------------------------------------------
\* initSimulation: device functions
\* ------------------------------------------------------------------------

\* Mutant: one generator shared by all threads, seeded by the number of
\* positions generated so far instead of the body index.
generateRandomVec3Shared(time, index) ==
    LET n == Cardinality({j \in DOMAIN posVer : posVer[j] >= 0})
        x1 == RngNext(RngSeed(hash(U32OfInt(n * time))))
        x2 == RngNext(x1)
        x3 == RngNext(x2)
    IN <<UnitDistrib(x1), UnitDistrib(x2), UnitDistrib(x3)>>

\* The three draws unitDistrib(rng) are arguments of one constructor call, so
\* the build fixes which draw becomes which component.
generateRandomVec3(time, index) ==
    LET x1 == RngNext(RngSeed(hash(U32OfInt(index * time))))
        x2 == RngNext(x1)
        x3 == RngNext(x2)
    IN IF argOrder = "ltr"
       THEN <<UnitDistrib(x1), UnitDistrib(x2), UnitDistrib(x3)>>
       ELSE <<UnitDistrib(x3), UnitDistrib(x2), UnitDistrib(x1)>>

\* The generator abstracted to "any vector with components in [-1, 1]": a
\* scene gives the vector returned for even and for odd body indices
\* (components in 1/RandRes).  The scenes put bodies at the same point, at the
\* origin, next to it on either side of the singularity threshold, at one
\* planar point with different heights, at a corner of the square, and where
\* the coded generator puts body 7.
Scenes ==
    {<<<<RandRes, RandRes, RandRes>>, <<RandRes, RandRes, RandRes>>>>,
     <<<<40, 0, 0>>, <<40, 0, RandRes>>>>,
     <<<<0, 0, 0>>, <<1, 0, 0>>>>,
     <<<<1, 1, 0>>, <<0 - 300, 200, 0 - RandRes>>>>,
     <<generateRandomVec3(1, 7), <<2, 0, 0>>>>}

\* glm::vec3 rand = generateRandomVec3(time, index)
RandOf(time, index) ==
    IF scene = <<>> THEN generateRandomVec3(time, index) ELSE scene[(index % 2) + 1]

\* Mutant: the random components taken to lie in [-2, 2].
RandomPosDoubled(rand, scale) ==
    <<Quot(2 * scale * PosRes * rand[1], RandRes),
      Quot(2 * scale * PosRes * rand[2], RandRes),
      Quot(scale * PosRes * ISqrt(rand[1] * rand[1] + rand[2] * rand[2]) * rand[3],
           10 * RandRes * RandRes)>>

\* What the thread of kernGenerateRandomPosArray stores for the vector rand.
RandomPos(rand, scale) ==
    <<Quot(scale * PosRes * rand[1], RandRes),
      Quot(scale * PosRes * rand[2], RandRes),
      Quot(scale * PosRes * ISqrt(rand[1] * rand[1] + rand[2] * rand[2]) * rand[3],
           10 * RandRes * RandRes)>>

\* Mutant: the planar distance from the origin.
OrbitRadiusPlanar(R) == length(<<R[1], R[2], 0>>) + EPSILON

\* float r = glm::length(R) + EPSILON, in units of 1/(PosRes * SubRes)
OrbitRadius(R) == length(R) + EPSILON

\* float s = sqrt(G * starMass / r), in units of 1/MilliRes
OrbitSpeed(r) == ISqrt(Quot(G * starMass * PosRes * SubRes, r))

\* Mutant: the radial direction, without the cross product.
OrbitDirRadial(R, r) ==
    normalize(<<Quot(R[1] * SubRes * MilliRes, r), Quot(R[2] * SubRes * MilliRes, r),
                Quot(R[3] * SubRes * MilliRes, r)>>)

\* glm::normalize(glm::cross(R / r, glm::vec3(0, 0, 1)))
OrbitDir(R, r) ==
    LET Rr == <<Quot(R[1] * SubRes * MilliRes, r), Quot(R[2] * SubRes * MilliRes, r),
                Quot(R[3] * SubRes * MilliRes, r)>>
    IN normalize(cross(Rr, <<0, 0, 1>>))

\* What the thread of kernGenerateCircularVelArray stores for the position R.
CircularVel(R) ==
    LET r == OrbitRadius(R)
        s == OrbitSpeed(r)
        D == OrbitDir(R, r)
    IN IF IsNaN(D) THEN NaNVec ELSE <<s * D[1], s * D[2], s * D[3]>>

\* ------------------------------------------------------------------------
\* stepSimulation: device functions
\* ------------------------------------------------------------------------

\* Mutant: the guard only excludes a zero distance.
AboveZero(denom) == denom > 0

\* denom > 0.1 for denom in units of 1/(PosRes * SubRes)^2
AboveThreshold(denom) == denom * 10 > (PosRes * SubRes) * (PosRes * SubRes)

\* Mutant: no guard; at zero distance num / 0 is inf and normalize gives NaN.
accelOneUnguarded(planet, other, mass) ==
    LET num == G * mass
        r == distance(planet, other)
    IN IF IsNaN(planet) \/ IsNaN(other) \/ r = 0 THEN NaNVec
       ELSE LET dir == normalize(VSub(other, planet))
                mag == Quot(Quot(num * PosRes * SubRes, r) * PosRes * SubRes, r)
            IN <<MulDiv(mag, dir[1], MilliRes), MulDiv(mag, dir[2], MilliRes),
                 MulDiv(mag, dir[3], MilliRes)>>

\* A comparison with NaN is false, so a NaN operand takes the else branch.
accelOne(planet, other, mass) ==
    LET num == G * mass
        r == distance(planet, other)
        denom == r * r
    IN IF ~IsNaN(planet) /\ ~IsNaN(other) /\ AboveThreshold(denom)
       THEN LET dir == normalize(VSub(other, planet))
                \* num / denom, as (num / r) / r to stay within the int range
                mag == Quot(Quot(num * PosRes * SubRes, r) * PosRes * SubRes, r)
            IN <<MulDiv(mag, dir[1], MilliRes), MulDiv(mag, dir[2], MilliRes),
                 MulDiv(mag, dir[3], MilliRes)>>
       ELSE ZeroVec

\* Mutant: the term of the central mass computed without the guard.
RECURSIVE accelLoopStarUnguarded(_, _, _)
accelLoopStarUnguarded(n, planet, pos) ==
    IF n = 0 THEN accelOneUnguarded(planet, ZeroVec, starMass)
    ELSE VAdd(accelLoopStarUnguarded(n - 1, planet, pos),
              accelOne(planet, pos[n - 1], planetMass))

\* Mutant: the loop starts at i = 1, so body 0 is left out.
RECURSIVE accelLoopFromOne(_, _, _)
accelLoopFromOne(n, planet, pos) ==
    IF n <= 1 THEN accelOne(planet, ZeroVec, starMass)
    ELSE VAdd(accelLoopFromOne(n - 1, planet, pos),
              accelOne(planet, pos[n - 1], planetMass))

\* totalAccel after the loop has run for i = 0 .. n-1
RECURSIVE accelLoop(_, _, _)
accelLoop(n, planet, pos) ==
    IF n = 0 THEN accelOne(planet, ZeroVec, starMass)
    ELSE VAdd(accelLoop(n - 1, planet, pos), accelOne(planet, pos[n - 1], planetMass))

accelerate(N, iSelf, pos) == accelLoop(N, pos[iSelf], pos)

\* ------------------------------------------------------------------------
\* Host: checkCUDAError, cudaMalloc, kernel launches
\* ------------------------------------------------------------------------
Init ==
    /\ hpc = "start"
    /\ numObjects = 0
    /\ allocated = {}
    /\ dev_pos = <<>> /\ dev_vel = <<>> /\ dev_acc = <<>>
    /\ vbo = <<>>
    /\ lastError = "cudaSuccess"
    /\ diag = <<>>
    /\ ticks = 0
    /\ dt = 0
    /\ stream = <<>>
    /\ argOrder \in {"ltr", "rtl"}
    /\ scene = <<>>
    /\ posVer = <<>> /\ velVer = <<>> /\ accVer = <<>> /\ posHist = <<>>

\* void Nbody::initSimulation(int N) { numObjects = N; ...
InitSimulation ==
    /\ hpc = "start"
    /\ \E N \in 1 .. MaxN :
          /\ numObjects' = N
          /\ vbo' = [slot \in 0 .. (4 * N - 1) |-> 0]
          /\ posVer' = [i \in 0 .. (N - 1) |-> 0 - 1]
          /\ velVer' = [i \in 0 .. (N - 1) |-> 0 - 1]
          /\ accVer' = [i \in 0 .. (N - 1) |-> 0]
          /\ posHist' = [i \in 0 .. (N - 1) |-> <<>>]
    /\ hpc' = "L116"
    /\ UNCHANGED <<allocated, dev_pos, dev_vel, dev_acc, lastError, diag, ticks, dt,
                   stream, buildVars>>

MallocStmts ==
    {[at |-> "L116", buf |-> "pos", next |-> "L117"],
     [at |-> "L119", buf |-> "vel", next |-> "L120"],
     [at |-> "L122", buf |-> "acc", next |-> "L123"]}

\* cudaMalloc((void**)&dev_X, N * sizeof(glm::vec3)): the buffer with unspecified
\* contents, or an error left for cudaGetLastError.
CudaMalloc ==
    \E st \in MallocStmts :
      /\ hpc = st.at
      /\ hpc' = st.next
      /\ \/ \E g \in GarbageVecs :
               LET fresh == [i \in Bodies |-> g]
               IN /\ allocated' = allocated \cup {st.buf}
                  /\ dev_pos' = IF st.buf = "pos" THEN fresh ELSE dev_pos
                  /\ dev_vel' = IF st.buf = "vel" THEN fresh ELSE dev_vel
                  /\ dev_acc' = IF st.buf = "acc" THEN fresh ELSE dev_acc
                  /\ UNCHANGED lastError
         \/ /\ lastError' = "cudaErrorMemoryAllocation"
            /\ UNCHANGED <<allocated, dev_pos, dev_vel, dev_acc>>
      /\ UNCHANGED <<numObjects, vbo, diag, ticks, dt, stream, buildVars, histVars>>

\* Mutant: initSimulation returns after its last check, without
\* cudaThreadSynchronize.
CheckStmtsInitNoSync ==
    {[at |-> "L117", line |-> 117, msg |-> "cudaMalloc dev_pos failed!", next |-> "L119"],
     [at |-> "L120", line |-> 120, msg |-> "cudaMalloc dev_vel failed!", next |-> "L122"],
     [at |-> "L123", line |-> 123, msg |-> "cudaMalloc dev_acc failed!", next |-> "L125"],
     [at |-> "L126", line |-> 126, msg |-> "kernGenerateRandomPosArray failed!",
      next |-> "L128"],
     [at |-> "L129", line |-> 129, msg |-> "kernGenerateCircularVelArray failed!",
      next |-> "ready"],
     [at |-> "L162", line |-> 162, msg |-> "copyPlanetsToVBO failed!", next |-> "L164"],
     [at |-> "L228", line |-> 228, msg |-> "kernUpdateAcc failed!", next |-> "L230"],
     [at |-> "L232", line |-> 232, msg |-> "kernUpdateVelPos failed!", next |-> "ready"]}

CheckStmts ==
    {[at |-> "L117", line |-> 117, msg |-> "cudaMalloc dev_pos failed!", next |-> "L119"],
     [at |-> "L120", line |-> 120, msg |-> "cudaMalloc dev_vel failed!", next |-> "L122"],
     [at |-> "L123", line |-> 123, msg |-> "cudaMalloc dev_acc failed!", next |-> "L125"],
     [at |-> "L126", line |-> 126, msg |-> "kernGenerateRandomPosArray failed!",
      next |-> "L128"],
     [at |-> "L129", line |-> 129, msg |-> "kernGenerateCircularVelArray failed!",
      next |-> "L131"],
     [at |-> "L162", line |-> 162, msg |-> "copyPlanetsToVBO failed!", next |-> "L164"],
     [at |-> "L228", line |-> 228, msg |-> "kernUpdateAcc failed!", next |-> "L230"],
     [at |-> "L232", line |-> 232, msg |-> "kernUpdateVelPos failed!", next |-> "ready"]}

\* Mutant: the error is printed but the process does not exit.
checkCUDAErrorNoExit(st) ==
    /\ hpc = st.at
    /\ lastError' = "cudaSuccess"
    /\ hpc' = st.next
    /\ diag' = IF lastError # "cudaSuccess" THEN <<st.line, st.msg, lastError>> ELSE diag
    /\ UNCHANGED <<numObjects, allocated, ticks, dt, memVars, stream, buildVars, histVars>>

\* checkCUDAErrorWithLine(msg): cudaGetLastError returns the last error and resets
\* it; on an error the message is printed and the process exits.
checkCUDAError(st) ==
    /\ hpc = st.at
    /\ lastError' = "cudaSuccess"
    /\ IF lastError # "cudaSuccess"
       THEN /\ diag' = <<st.line, st.msg, lastError>>
            /\ hpc' = "exited"
       ELSE /\ hpc' = st.next
            /\ UNCHANGED diag
    /\ UNCHANGED <<numObjects, allocated, ticks, dt, memVars, stream, buildVars, histVars>>

CheckCUDAErrorWithLine == \E st \in CheckStmts : checkCUDAError(st)

\* Mutant: the grid size rounded down.
fullBlocksPerGridFloor(N) == N \div blockSize

\* dim3 fullBlocksPerGrid((N + blockSize - 1) / blockSize)
fullBlocksPerGrid(N) == (N + blockSize - 1) \div blockSize

\* The threads of a launch that pass the test (index < N), each at its first
\* statement.
FirstLocal == [pc |-> "run", planet |-> ZeroVec, total |-> ZeroVec,
               vel0 |-> ZeroVec, pos0 |-> ZeroVec, accRead |-> ZeroVec, seen |-> {}]

Launched(kern, N, grid) ==
    [kern |-> kern, N |-> N, time |-> IF kern = "kernGenerateCircularVelArray" THEN 2 ELSE 1,
     scale |-> scene_scale, dt |-> dt, tick |-> ticks,
     thr |-> [i \in {t \in 0 .. (grid * blockSize - 1) : t < N} |-> FirstLocal],
     idle |-> IF grid * blockSize > N THEN grid * blockSize - N ELSE 0]

\* Mutant: stepSimulation launches the integrator before the force evaluation.
LaunchStmtsIntegrateFirst ==
    {[at |-> "L125", kern |-> "kernGenerateRandomPosArray", next |-> "L126"],
     [at |-> "L128", kern |-> "kernGenerateCircularVelArray", next |-> "L129"],
     [at |-> "L161", kern |-> "kernCopyPlanetsToVBO", next |-> "L162"],
     [at |-> "L226", kern |-> "kernUpdateVelPos", next |-> "L228"],
     [at |-> "L230", kern |-> "kernUpdateAcc", next |-> "L232"]}

\* Mutant: stepSimulation without the check that follows the launch of
\* kernUpdateAcc.
LaunchStmtsNoForceCheck ==
    {[at |-> "L125", kern |-> "kernGenerateRandomPosArray", next |-> "L126"],
     [at |-> "L128", kern |-> "kernGenerateCircularVelArray", next |-> "L129"],
     [at |-> "L161", kern |-> "kernCopyPlanetsToVBO", next |-> "L162"],
     [at |-> "L226", kern |-> "kernUpdateAcc", next |-> "L230"],
     [at |-> "L230", kern |-> "kernUpdateVelPos", next |-> "L232"]}

LaunchStmts ==
    {[at |-> "L125", kern |-> "kernGenerateRandomPosArray", next |-> "L126"],
     [at |-> "L128", kern |-> "kernGenerateCircularVelArray", next |-> "L129"],
     [at |-> "L161", kern |-> "kernCopyPlanetsToVBO", next |-> "L162"],
     [at |-> "L226", kern |-> "kernUpdateAcc", next |-> "L228"],
     [at |-> "L230", kern |-> "kernUpdateVelPos", next |-> "L232"]}

\* kern<<<fullBlocksPerGrid, blockSize>>>(...): the kernel is appended to the
\* default stream and the host goes on; a launch the runtime rejects leaves an
\* error for cudaGetLastError and runs nothing.
LaunchKernel ==
    \E st \in LaunchStmts :
      /\ hpc = st.at
      /\ hpc' = st.next
      /\ \/ /\ stream' = Append(stream,
                                Launched(st.kern, numObjects, fullBlocksPerGrid(numObjects)))
            /\ UNCHANGED lastError
         \/ /\ lastError' = "cudaErrorLaunchFailure"
            /\ UNCHANGED stream
      /\ UNCHANGED <<numObjects, allocated, diag, ticks, dt, memVars, buildVars, histVars>>

SyncStmts ==
    {[at |-> "L131", next |-> "ready"], [at |-> "L164", next |-> "ready"]}

\* cudaThreadSynchronize(): returns once every launched kernel has finished.
CudaThreadSynchronize ==
    \E st \in SyncStmts :
      /\ hpc = st.at
      /\ stream = <<>>
      /\ hpc' = st.next
      /\ UNCHANGED <<numObjects, allocated, lastError, diag, ticks, dt, memVars, stream,
                     buildVars, histVars>>

\* void Nbody::stepSimulation(float dt): called any number of times once
\* initSimulation has returned.
StepSimulation ==
    /\ hpc = "ready"
    /\ ticks < MaxTicks
    /\ \E d \in DtSet : dt' = d
    /\ ticks' = ticks + 1
    /\ hpc' = "L226"
    /\ UNCHANGED <<numObjects, allocated, lastError, diag, memVars, stream, buildVars,
                   histVars>>

\* void Nbody::copyPlanetsToVBO(float *vbodptr)
CopyPlanetsToVBO ==
    /\ hpc = "ready"
    /\ hpc' = "L161"
    /\ UNCHANGED <<numObjects, allocated, lastError, diag, ticks, dt, memVars, stream,
                   buildVars, histVars>>

\* void Nbody::endSimulation()
EndSimulation ==
    /\ hpc = "ready"
    /\ hpc' = "L236"
    /\ UNCHANGED <<numObjects, allocated, lastError, diag, ticks, dt, memVars, stream,
                   buildVars, histVars>>

FreeStmts ==
    {[at |-> "L236", buf |-> "acc", next |-> "L237"],
     [at |-> "L237", buf |-> "vel", next |-> "L238"],
     [at |-> "L238", buf |-> "pos", next |-> "ended"]}

\* Mutant: cudaFree releases the buffer without waiting for the device.
CudaFreeNoWait ==
    \E st \in FreeStmts :
      /\ hpc = st.at
      /\ hpc' = st.next
      /\ allocated' = allocated \ {st.buf}
      /\ UNCHANGED <<dev_pos, dev_vel, dev_acc>>
      /\ UNCHANGED <<numObjects, vbo, lastError, diag, ticks, dt, stream, buildVars,
                     histVars>>

\* cudaFree(dev_X): waits for the device to be idle, then releases the buffer.
CudaFree ==
    \E st \in FreeStmts :
      /\ hpc = st.at
      /\ stream = <<>>
      /\ hpc' = st.next
      /\ allocated' = allocated \ {st.buf}
      /\ dev_pos' = IF st.buf = "pos" THEN <<>> ELSE dev_pos
      /\ dev_vel' = IF st.buf = "vel" THEN <<>> ELSE dev_vel
      /\ dev_acc' = IF st.buf = "acc" THEN <<>> ELSE dev_acc
      /\ UNCHANGED <<numObjects, vbo, lastError, diag, ticks, dt, stream, buildVars,
                     histVars>>

\* ------------------------------------------------------------------------
\* Device: the default stream and the threads of its kernels
\* ------------------------------------------------------------------------

\* Mutant: every launch on a stream of its own, so launched kernels overlap.
MayRunConcurrently(k) == k >= 1

\* The launches name no stream, so all kernels go to the default stream, which
\* runs them one at a time in launch order: only the oldest may execute.
MayRun(k) == k = 1

hostSide == <<numObjects, allocated, lastError, diag, ticks, dt, hpc, buildVars>>

\* float NaN in the caller's buffer
NaNF == 0 - 2^30

\* Mutant: the thread of body index stores into the element of its neighbour.
ThreadGenerateRandomPosShifted ==
    \E k \in 1 .. Len(stream) : \E i \in DOMAIN stream[k].thr :
      LET e == stream[k]
          n == (i + 1) % e.N IN
      /\ MayRun(k)
      /\ e.kern = "kernGenerateRandomPosArray"
      /\ e.thr[i].pc = "run"
      /\ LET p == RandomPos(RandOf(e.time, i), e.scale)
         IN /\ dev_pos' = [dev_pos EXCEPT ![n] = p]
            /\ posHist' = [posHist EXCEPT ![n] = <<p>>]
      /\ posVer' = [posVer EXCEPT ![n] = 0]
      /\ stream' = [stream EXCEPT ![k].thr[i].pc = "done"]
      /\ UNCHANGED <<hostSide, dev_vel, dev_acc, vbo, velVer, accVer>>

\* kernGenerateRandomPosArray, thread index < N
ThreadGenerateRandomPos ==
    \E k \in 1 .. Len(stream) : \E i \in DOMAIN stream[k].thr :
      LET e == stream[k] IN
      /\ MayRun(k)
      /\ e.kern = "kernGenerateRandomPosArray"
      /\ e.thr[i].pc = "run"
      /\ LET p == RandomPos(RandOf(e.time, i), e.scale)
         IN /\ dev_pos' = [dev_pos EXCEPT ![i] = p]
            /\ posHist' = [posHist EXCEPT ![i] = <<p>>]
      /\ posVer' = [posVer EXCEPT ![i] = 0]
      /\ stream' = [stream EXCEPT ![k].thr[i].pc = "done"]
      /\ UNCHANGED <<hostSide, dev_vel, dev_acc, vbo, velVer, accVer>>

\* kernGenerateCircularVelArray, thread index < N: line 99, then lines 100-105
ThreadGenerateCircularVel ==
    \E k \in 1 .. Len(stream) : \E i \in DOMAIN stream[k].thr :
      LET e == stream[k]
          t == e.thr[i] IN
      /\ MayRun(k)
      /\ e.kern = "kernGenerateCircularVelArray"
      /\ \/ /\ t.pc = "run"
            /\ stream' = [stream EXCEPT ![k].thr[i] =
                              [t EXCEPT !.pc = "store", !.planet = dev_pos[i],
                                        !.seen = {posVer[i]}]]
            /\ UNCHANGED <<dev_vel, velVer>>
         \/ /\ t.pc = "store"
            /\ dev_vel' = [dev_vel EXCEPT ![i] = CircularVel(t.planet)]
            /\ velVer' = [velVer EXCEPT ![i] = 0]
            /\ stream' = [stream EXCEPT ![k].thr[i].pc = "done"]
      /\ UNCHANGED <<hostSide, dev_pos, dev_acc, vbo, posVer, accVer, posHist>>

\* kernUpdateAcc, thread i < N: the call accelerate(N, i, pos), which only
\* reads pos, then the store acc[i] = ...
ThreadUpdateAcc ==
    \E k \in 1 .. Len(stream) : \E i \in DOMAIN stream[k].thr :
      LET e == stream[k]
          t == e.thr[i] IN
      /\ MayRun(k)
      /\ e.kern = "kernUpdateAcc"
      /\ \/ /\ t.pc = "run"
            /\ stream' = [stream EXCEPT ![k].thr[i] =
                              [t EXCEPT !.pc = "store",
                                        !.planet = dev_pos[i],
                                        !.total = accelerate(e.N, i, dev_pos),
                                        !.seen = {posVer[j] : j \in 0 .. (e.N - 1)}]]
            /\ UNCHANGED <<dev_acc, accVer>>
         \/ /\ t.pc = "store"
            /\ dev_acc' = [dev_acc EXCEPT ![i] = t.total]
            /\ accVer' = [accVer EXCEPT ![i] = e.tick]
            /\ stream' = [stream EXCEPT ![k].thr[i].pc = "done"]
      /\ UNCHANGED <<hostSide, dev_pos, dev_vel, vbo, posVer, velVer, posHist>>

\* Mutant: the velocity update is lost, so the position advances by the old velocity.
NewVelUnchanged(vel, acc, d) == vel

\* vel[i] += acc[i] * dt
NewVel(vel, acc, d) == VAdd(vel, VTimesDt(acc, d))

\* pos[i] += vel[i] * dt
NewPos(pos, vel, d) == VAdd(pos, VTimesDtPos(vel, d))

\* kernUpdateVelPos, thread i < N: line 216, then line 217
ThreadUpdateVelPos ==
    \E k \in 1 .. Len(stream) : \E i \in DOMAIN stream[k].thr :
      LET e == stream[k]
          t == e.thr[i] IN
      /\ MayRun(k)
      /\ e.kern = "kernUpdateVelPos"
      /\ \/ /\ t.pc = "run"
            /\ dev_vel' = [dev_vel EXCEPT ![i] = NewVel(dev_vel[i], dev_acc[i], e.dt)]
            /\ velVer' = [velVer EXCEPT ![i] = @ + 1]
            /\ stream' = [stream EXCEPT ![k].thr[i] =
                              [t EXCEPT !.pc = "pos", !.vel0 = dev_vel[i],
                                        !.accRead = dev_acc[i], !.seen = {accVer[i]}]]
            /\ UNCHANGED <<dev_pos, posVer, posHist>>
         \/ /\ t.pc = "pos"
            /\ LET p == NewPos(dev_pos[i], dev_vel[i], e.dt)
               IN /\ dev_pos' = [dev_pos EXCEPT ![i] = p]
                  /\ posHist' = [posHist EXCEPT ![i] = Append(@, p)]
            /\ posVer' = [posVer EXCEPT ![i] = @ + 1]
            /\ stream' = [stream EXCEPT ![k].thr[i] =
                              [t EXCEPT !.pc = "done", !.pos0 = dev_pos[i]]]
            /\ UNCHANGED <<dev_vel, velVer>>
      /\ UNCHANGED <<hostSide, dev_acc, vbo, accVer>>

\* Mutant: the coordinate scaled without the change of sign.
VboCoordNotNegated(c, s_scale) == Quot(c * MilliRes, PosRes * s_scale)

\* pos[index].c * c_scale with c_scale = -1.0f / s_scale, in units of 1/MilliRes
VboCoord(c, s_scale) == Quot((0 - c) * MilliRes, PosRes * s_scale)

\* kernCopyPlanetsToVBO, thread index < N
ThreadCopyPlanetsToVBO ==
    \E k \in 1 .. Len(stream) : \E i \in DOMAIN stream[k].thr :
      LET e == stream[k]
          t == e.thr[i]
          p == dev_pos[i]
          out == IF IsNaN(p) THEN <<NaNF, NaNF, NaNF, MilliRes>>
                 ELSE <<VboCoord(p[1], e.scale), VboCoord(p[2], e.scale),
                        VboCoord(p[3], e.scale), MilliRes>> IN
      /\ MayRun(k)
      /\ e.kern = "kernCopyPlanetsToVBO"
      /\ t.pc = "run"
      /\ vbo' = [slot \in DOMAIN vbo |->
                   IF slot \in (4 * i) .. (4 * i + 3) THEN out[slot - 4 * i + 1]
                   ELSE vbo[slot]]
      /\ stream' = [stream EXCEPT ![k].thr[i] =
                        [t EXCEPT !.pc = "done", !.seen = {posVer[i]}]]
      /\ UNCHANGED <<hostSide, dev_pos, dev_vel, dev_acc, histVars>>

\* The threads of the last block whose index is not below N: the test fails
\* and they return without touching memory.  Nothing can observe when they
\* return, so the model lets them return after the others.
ThreadsOutOfRange ==
    \E k \in 1 .. Len(stream) :
      /\ MayRun(k)
      /\ stream[k].idle > 0
      /\ \A i \in DOMAIN stream[k].thr : stream[k].thr[i].pc = "done"
      /\ stream' = [stream EXCEPT ![k].idle = 0]
      /\ UNCHANGED <<hostSide, memVars, histVars>>

\* Mutant: the next kernel of the stream may start as soon as one thread of
\* the running kernel has returned.
KernelFinishedEarly ==
    \E k \in 1 .. Len(stream) :
      /\ MayRun(k)
      /\ \E i \in DOMAIN stream[k].thr : stream[k].thr[i].pc = "done"
      /\ stream' = SubSeq(stream, 1, k - 1) \o SubSeq(stream, k + 1, Len(stream))
      /\ UNCHANGED <<hostSide, memVars, histVars>>

\* A kernel finishes when all its threads have returned.
KernelFinished ==
    \E k \in 1 .. Len(stream) :
      /\ MayRun(k)
      /\ stream[k].idle = 0
      /\ \A i \in DOMAIN stream[k].thr : stream[k].thr[i].pc = "done"
      /\ stream' = SubSeq(stream, 1, k - 1) \o SubSeq(stream, k + 1, Len(stream))
      /\ UNCHANGED <<hostSide, memVars, histVars>>

Next ==
    \/ InitSimulation
    \/ CudaMalloc
    \/ CheckCUDAErrorWithLine
    \/ LaunchKernel
    \/ CudaThreadSynchronize
    \/ StepSimulation
    \/ CopyPlanetsToVBO
    \/ EndSimulation
    \/ CudaFree
    \/ ThreadGenerateRandomPos
    \/ ThreadGenerateCircularVel
    \/ ThreadUpdateAcc
    \/ ThreadUpdateVelPos
    \/ ThreadCopyPlanetsToVBO
    \/ ThreadsOutOfRange
    \/ KernelFinished

Spec == Init /\ [][Next]_vars

\* The same program with the generator abstracted to the vectors of a scene.
InitScene ==
    /\ hpc = "start"
    /\ numObjects = 0
    /\ allocated = {}
    /\ dev_pos = <<>> /\ dev_vel = <<>> /\ dev_acc = <<>>
    /\ vbo = <<>>
    /\ lastError = "cudaSuccess"
    /\ diag = <<>>
    /\ ticks = 0
    /\ dt = 0
    /\ stream = <<>>
    /\ argOrder = "ltr"
    /\ scene \in Scenes
    /\ posVer = <<>> /\ velVer = <<>> /\ accVer = <<>> /\ posHist = <<>>

SpecScene == InitScene /\ [][Next]_vars

\* ------------------------------------------------------------------------
\* Properties
\* ------------------------------------------------------------------------
Kernels(name) == {k \in 1 .. Len(stream) : stream[k].kern = name}

\* C1: in every tick, kernUpdateAcc's write of acc[i] happens before
\* kernUpdateVelPos reads acc[j], for all bodies i and j: once a thread of the
\* integrator of tick t has read its acceleration, the value it read and
\* every element of acc were written by the force evaluation of tick t.
C1_AccWrittenBeforeRead ==
    \A k \in Kernels("kernUpdateVelPos") : \A i \in DOMAIN stream[k].thr :
      stream[k].thr[i].pc # "run" =>
        /\ stream[k].thr[i].seen = {stream[k].tick}
        /\ \A j \in Bodies : accVer[j] = stream[k].tick

\* An integrator thread has read its acceleration while another has not started.
C1_Witness ==
    \E k \in Kernels("kernUpdateVelPos") : \E i, j \in DOMAIN stream[k].thr :
      /\ stream[k].tick >= 1
      /\ stream[k].thr[i].pc = "pos"
      /\ stream[k].thr[j].pc = "run"

\* The positions of all bodies as they were at the end of tick t (t = 0: as
\* generated), from the history of writes.
PosAtEndOfTick(t) == [j \in Bodies |-> posHist[j][t + 1]]

C2_ForceReadsPreviousTick ==
    \A k \in Kernels("kernUpdateAcc") : \A i \in DOMAIN stream[k].thr :
      stream[k].thr[i].pc # "run" => stream[k].thr[i].seen = {stream[k].tick - 1}

C2_ConsumedFromPreviousTick ==
    \A k \in Kernels("kernUpdateVelPos") : \A i \in DOMAIN stream[k].thr :
      stream[k].thr[i].pc # "run" =>
        /\ \A j \in Bodies : Len(posHist[j]) >= stream[k].tick
        /\ stream[k].thr[i].accRead =
             accelerate(stream[k].N, i, PosAtEndOfTick(stream[k].tick - 1))

C3_SymplecticEuler ==
    \A k \in Kernels("kernUpdateVelPos") : \A i \in DOMAIN stream[k].thr :
      LET t == stream[k].thr[i]
          v1 == VAdd(t.vel0, VTimesDt(t.accRead, stream[k].dt))
      IN t.pc = "done" =>
           /\ dev_vel[i] = v1
           /\ dev_pos[i] = VAdd(t.pos0, VTimesDtPos(v1, stream[k].dt))

\* A finished integrator thread for which the updated and the pre-step
\* velocity give different positions.
C3_Witness ==
    \E k \in Kernels("kernUpdateVelPos") : \E i \in DOMAIN stream[k].thr :
      LET t == stream[k].thr[i]
      IN /\ t.pc = "done"
         /\ ~IsNaN(dev_pos[i])
         /\ dev_pos[i] # VAdd(t.pos0, VTimesDtPos(t.vel0, stream[k].dt))

\* C4: the self term contributes zero, accelOne(p, p, planetMass) = 0 for the
\* position p of every body, and with N = 1 the acceleration stored in acc[0]
\* is the central-mass contribution accelOne(pos[0], origin, starMass).
C4_SelfTermZero ==
    \A k \in Kernels("kernUpdateAcc") : \A i \in DOMAIN stream[k].thr :
      LET t == stream[k].thr[i]
      IN t.pc # "run" =>
           /\ accelOne(t.planet, t.planet, planetMass) = ZeroVec
           /\ stream[k].N = 1 => t.total = accelOne(t.planet, ZeroVec, starMass)
           /\ (stream[k].N = 1 /\ t.pc = "done")
                => dev_acc[0] = accelOne(t.planet, ZeroVec, starMass)

\* N = 1 and the stored acceleration is the (non-zero) pull of the star.
C4_Witness ==
    \E k \in Kernels("kernUpdateAcc") :
      /\ stream[k].N = 1
      /\ stream[k].thr[0].pc = "done"
      /\ dev_acc[0] # ZeroVec
      /\ dev_acc[0] = accelOne(stream[k].thr[0].planet, ZeroVec, starMass)

\* The squared distance of two points is at most 0.1 (exactly, on the
\* position lattice).
WithinThreshold(a, b) ==
    LET d == VSub(b, a) IN Dot(d, d) * 10 <= PosRes * PosRes

FinitePos == {i \in DOMAIN dev_pos : ~IsNaN(dev_pos[i])}

\* C5: whenever the squared distance between a body and the other point is at
\* most 0.1, accelOne returns the zero vector, for the pairwise terms and for
\* the central term; and every acceleration kernUpdateAcc computes and stores
\* is finite, bodies at the same coordinates included.
C5_SingularityGuard ==
    /\ \A i \in FinitePos : \A j \in FinitePos :
         WithinThreshold(dev_pos[i], dev_pos[j])
           => accelOne(dev_pos[i], dev_pos[j], planetMass) = ZeroVec
    /\ \A i \in FinitePos :
         WithinThreshold(dev_pos[i], ZeroVec)
           => accelOne(dev_pos[i], ZeroVec, starMass) = ZeroVec
    /\ \A k \in Kernels("kernUpdateAcc") : \A i \in DOMAIN stream[k].thr :
         ~IsNaN(stream[k].thr[i].total)
    /\ \A i \in DOMAIN dev_acc : ~IsNaN(dev_acc[i])

\* Two bodies at the same coordinates, and both have received an acceleration.
C5_Witness ==
    \E k \in Kernels("kernUpdateAcc") :
      /\ numObjects >= 2
      /\ \A i \in DOMAIN stream[k].thr : stream[k].thr[i].pc = "done"
      /\ ~IsNaN(dev_pos[0])
      /\ dev_pos[0] = dev_pos[1]
      /\ ~IsNaN(dev_acc[0]) /\ ~IsNaN(dev_acc[1])

\* initSimulation has returned and no tick has been started.
InitDone == hpc = "ready" /\ ticks = 0

Scale == scene_scale * PosRes

\* C6 as stated: after initSimulation the x, y components of every position
\* lie in the disc of radius scale.
C6_InDisc ==
    InitDone =>
      \A i \in Bodies :
        dev_pos[i][1] * dev_pos[i][1] + dev_pos[i][2] * dev_pos[i][2] <= Scale * Scale

\* C6, amended: after initSimulation the x, y components of every position lie
\* in the square |x| <= scale, |y| <= scale, so x^2 + y^2 <= 2 * scale^2, and
\* the distance from the origin is at most scale * sqrt(2.02).
C6_InSquare ==
    InitDone =>
      \A i \in Bodies :
        LET x == dev_pos[i][1]
            y == dev_pos[i][2]
            z == dev_pos[i][3]
        IN /\ Abs(x) <= Scale
           /\ Abs(y) <= Scale
           /\ x * x + y * y <= 2 * Scale * Scale
           /\ 100 * (x * x + y * y + z * z) <= 202 * Scale * Scale

\* A generated position inside the square and outside the disc.
C6_Witness ==
    /\ InitDone
    /\ \E i \in Bodies :
         /\ Abs(dev_pos[i][1]) <= Scale /\ Abs(dev_pos[i][2]) <= Scale
         /\ dev_pos[i][1] * dev_pos[i][1] + dev_pos[i][2] * dev_pos[i][2] > Scale * Scale

\* C7: initialisation is deterministic: whatever the interleaving of the
\* per-body threads, when initSimulation has returned pos[i] and vel[i] are the
\* values a function of (i, seed, scale, masses) gives for the build at hand.
C7_Deterministic ==
    InitDone =>
      /\ dev_pos = [i \in Bodies |-> RandomPos(generateRandomVec3(1, i), scene_scale)]
      /\ dev_vel = [i \in Bodies |->
                      CircularVel(RandomPos(generateRandomVec3(1, i), scene_scale))]

\* Initialisation of several bodies, with different positions, has completed.
C7_Witness ==
    /\ InitDone
    /\ numObjects >= 2
    /\ dev_pos[0] # dev_pos[1]
    /\ dev_vel[0] # dev_vel[1]

\* |v| of a velocity, in units of 1/MilliRes
SpeedOf(v) ==
    LET m == <<Quot(v[1], MilliRes), Quot(v[2], MilliRes), Quot(v[3], MilliRes)>>
    IN ISqrt(Dot(m, m))

HasVel == {i \in Bodies : ~IsNaN(dev_vel[i])}

\* C8 as stated: bodies with the same x and y and different z are given the
\* same speed.
C8_SpeedFromPlanarRadius ==
    InitDone =>
      \A i \in HasVel : \A j \in HasVel :
        (dev_pos[i][1] = dev_pos[j][1] /\ dev_pos[i][2] = dev_pos[j][2])
          => SpeedOf(dev_vel[i]) = SpeedOf(dev_vel[j])

\* C8, amended: the radius in s = sqrt(G * starMass / r) is the distance of the
\* body from the origin in three dimensions (plus epsilon): the stored velocity
\* is s * D with s = sqrt(G * starMass / (|pos| + epsilon)) and D a unit vector
\* (to the precision of the lattice).
C8_SpeedFromRadius ==
    InitDone =>
      \A i \in HasVel :
        LET s == ISqrt(Quot(G * starMass * PosRes * SubRes, length(dev_pos[i]) + EPSILON))
            D == <<Quot(dev_vel[i][1], s), Quot(dev_vel[i][2], s), Quot(dev_vel[i][3], s)>>
        IN /\ dev_vel[i] = <<s * D[1], s * D[2], s * D[3]>>
           /\ ISqrt(Dot(D, D)) \in (MilliRes - 2) .. MilliRes

\* Two bodies with the same x and y, different z, and different speeds.
C8_Witness ==
    /\ InitDone
    /\ \E i \in HasVel : \E j \in HasVel :
         /\ dev_pos[i][1] = dev_pos[j][1] /\ dev_pos[i][2] = dev_pos[j][2]
         /\ dev_pos[i][3] # dev_pos[j][3]
         /\ SpeedOf(dev_vel[i]) # SpeedOf(dev_vel[j])

OffAxis == {i \in Bodies : dev_pos[i][1] # 0 \/ dev_pos[i][2] # 0}

\* C9: for every body off the vertical axis the initial velocity has z
\* component 0, is not zero, is perpendicular to the position vector (dot
\* product 0 up to the rounding of the lattice: |cos| <= 1/100) and has the
\* sense of cross(radial, (0, 0, 1)) = (y, -x, 0).
C9_Tangent ==
    InitDone =>
      \A i \in OffAxis :
        /\ ~IsNaN(dev_vel[i])
        /\ dev_vel[i][3] = 0
        /\ LET x == dev_pos[i][1]
               y == dev_pos[i][2]
               vx == Quot(dev_vel[i][1], MilliRes)
               vy == Quot(dev_vel[i][2], MilliRes)
           IN /\ vx # 0 \/ vy # 0
              /\ 100 * Abs(x * vx + y * vy + dev_pos[i][3] * 0)
                   <= (Abs(x) + Abs(y)) * (Abs(vx) + Abs(vy))
              /\ vx * y >= 0
              /\ vy * x <= 0

\* A body in general position (x, y, z all non-zero) has its velocity.
C9_Witness ==
    /\ InitDone
    /\ \E i \in OffAxis :
         /\ dev_pos[i][1] # 0 /\ dev_pos[i][2] # 0 /\ dev_pos[i][3] # 0
         /\ ~IsNaN(dev_vel[i])
         /\ dev_vel[i][1] # 0 /\ dev_vel[i][2] # 0

AllBuffers == {"pos", "vel", "acc"}

C10_NoPartialState ==
    /\ stream # <<>> => allocated = AllBuffers
    /\ hpc \in {"L125", "L126", "L128", "L129", "L131", "ready", "L226", "L228", "L230",
                 "L232", "L161", "L162", "L164", "L236"} => allocated = AllBuffers
    /\ lastError = "cudaErrorMemoryAllocation" => hpc \in {"L117", "L120", "L123"}
    /\ (diag # <<>> /\ diag[3] = "cudaErrorMemoryAllocation") =>
         /\ hpc = "exited"
         /\ diag[1] \in {117, 120, 123}
         /\ stream = <<>>
         /\ \A i \in Bodies : posVer[i] < 0 /\ velVer[i] < 0 /\ accVer[i] = 0

\* C10: if one of the three allocations of initSimulation fails, the next
\* step of the process prints the diagnostic and exits, before any kernel is
\* launched; no kernel is pending or running, and no step, export or kernel
\* launch is reached, unless all three buffers exist.
C10_AllocationFailureAborts ==
    /\ []C10_NoPartialState
    /\ [][lastError = "cudaErrorMemoryAllocation" => (hpc' = "exited" /\ diag' # <<>>)]_vars

\* The second allocation failed: the process has exited with the position
\* buffer alone allocated.
C10_Witness ==
    /\ hpc = "exited"
    /\ diag # <<>>
    /\ diag[1] = 120
    /\ allocated = {"pos"}

\* The statements of copyPlanetsToVBO
CopyPcs == {"L161", "L162", "L164"}

\* A step of the host inside copyPlanetsToVBO, its call included
CopyHostStep == (hpc \in CopyPcs \/ hpc' \in CopyPcs) /\ hpc' # hpc

\* (-c / scale) for a position coordinate c, in units of 1/MilliRes
Exported(c) == Quot((0 - c) * MilliRes, PosRes * scene_scale)

\* What the caller's buffer holds for body i when the positions are pos
ExportedBody(pos, i) ==
    IF IsNaN(pos[i]) THEN \A c \in 0 .. 2 : vbo[4 * i + c] = NaNF
    ELSE \A c \in 0 .. 2 : vbo[4 * i + c] = Exported(pos[i][c + 1])

\* C11: copyPlanetsToVBO is a pure read of engine state: neither its host
\* statements nor a thread of its kernel changes pos, vel, acc or numObjects;
\* the thread of body i changes no slot outside 4i..4i+3, the buffer has no
\* slot at or above 4N, and when copyPlanetsToVBO returns the slots of every
\* body i hold (-pos[i].x/scale, -pos[i].y/scale, -pos[i].z/scale, 1).
C11_ExportIsPureRead ==
    /\ [](numObjects > 0 => DOMAIN vbo = 0 .. (4 * numObjects - 1))
    /\ [][(CopyHostStep \/ ThreadCopyPlanetsToVBO)
            => UNCHANGED <<dev_pos, dev_vel, dev_acc, numObjects>>]_vars
    /\ [][ThreadCopyPlanetsToVBO =>
            \E i \in Bodies :
              \A slot \in DOMAIN vbo :
                slot \notin (4 * i) .. (4 * i + 3) => vbo'[slot] = vbo[slot]]_vars
    /\ [][(hpc = "L164" /\ hpc' = "ready") =>
            \A i \in Bodies : ExportedBody(dev_pos, i) /\ vbo[4 * i + 3] = MilliRes]_vars

\* After a tick, the export kernel has finished and copyPlanetsToVBO is about
\* to return with the coordinates of several bodies in the buffer.
C11_Witness ==
    /\ hpc = "L164"
    /\ stream = <<>>
    /\ ticks >= 1
    /\ numObjects >= 2
    /\ \A i \in Bodies : vbo[4 * i] # 0 /\ vbo[4 * i + 3] = MilliRes

MallocPcs == {st.at : st \in MallocStmts}
FreePcs == {st.at : st \in FreeStmts}
EndPcs == FreePcs \cup {"ended"}
InitPcs == {"start", "L116", "L117", "L119", "L120", "L122", "L123", "L125", "L126",
            "L128", "L129", "L131"}

\* The buffers that exist at each statement of endSimulation and after it
C12_FreedInOrder ==
    /\ hpc = "L236" => allocated = AllBuffers
    /\ hpc = "L237" => allocated = {"pos", "vel"}
    /\ hpc = "L238" => allocated = {"pos"}
    /\ hpc = "ended" => allocated = {}
    /\ allocated # AllBuffers => stream = <<>>

\* C12: in every run of the lifecycle each of the three buffers is allocated
\* exactly once and freed exactly once: a buffer comes into existence only at
\* a cudaMalloc of initSimulation and goes only at a cudaFree of endSimulation,
\* one buffer at a time, initSimulation's statements are never re-entered, all
\* three buffers are gone after endSimulation, and whenever a buffer is freed
\* no kernel is pending or running.
C12_AllocatedOnceFreedOnce ==
    /\ []C12_FreedInOrder
    /\ [][allocated' # allocated =>
            \/ /\ hpc \in MallocPcs
               /\ \E b \in AllBuffers \ allocated : allocated' = allocated \cup {b}
            \/ /\ hpc \in FreePcs
               /\ \E b \in allocated : allocated' = allocated \ {b}
               /\ stream = <<>> /\ stream' = <<>>]_vars
    /\ [][hpc \notin InitPcs => hpc' \notin InitPcs]_vars
    /\ [][(hpc \in EndPcs) => (hpc' \in EndPcs)]_vars

\* endSimulation, called after a tick, has freed its first buffer; the tick's
\* integration of every body is complete.
C12_Witness ==
    /\ hpc = "L237"
    /\ ticks >= 1
    /\ allocated = {"pos", "vel"}
    /\ \A i \in Bodies : posVer[i] = ticks

\* C13: initialization fully completes before any tick: once initSimulation
\* has returned (and so whenever a tick has been started), pos[i] and vel[i]
\* have been written for every body i; and a thread of the velocity kernel
\* that has read pos[i] read the value the position kernel wrote, never the
\* unspecified contents of the fresh buffer.
C13_InitCompletesBeforeTicks ==
    /\ (ticks >= 1 \/ (hpc \notin InitPcs /\ hpc # "exited")) =>
          \A i \in Bodies : posVer[i] >= 0 /\ velVer[i] >= 0 /\ Len(posHist[i]) >= 1
    /\ \A k \in Kernels("kernGenerateCircularVelArray") : \A i \in DOMAIN stream[k].thr :
          stream[k].thr[i].pc # "run" =>
            /\ stream[k].thr[i].seen = {0}
            /\ stream[k].thr[i].planet = posHist[i][1]
    /\ \A k \in Kernels("kernUpdateAcc") \cup Kernels("kernUpdateVelPos") :
          \A i \in Bodies : posVer[i] >= 0 /\ velVer[i] >= 0

\* The host waits in initSimulation's cudaThreadSynchronize while one thread
\* of the velocity kernel has read its position and another has not started.
C13_Witness ==
    /\ hpc = "L131"
    /\ \E k \in Kernels("kernGenerateCircularVelArray") : \E i, j \in DOMAIN stream[k].thr :
         /\ stream[k].thr[i].pc = "store"
         /\ stream[k].thr[j].pc = "run"
         /\ stream[k].thr[i].planet # ZeroVec

\* The force evaluation of the current tick has been launched.
ForceLaunched ==
    \/ \E k \in Kernels("kernUpdateAcc") : stream[k].tick = ticks
    \/ \A i \in Bodies : accVer[i] = ticks

C14_NoIntegrationAfterFailure ==
    /\ hpc \in {"L230", "L232"} => ForceLaunched
    /\ \A k \in Kernels("kernUpdateVelPos") :
          \/ \E f \in Kernels("kernUpdateAcc") : f < k /\ stream[f].tick = stream[k].tick
          \/ \A i \in Bodies : accVer[i] = stream[k].tick
    /\ (diag # <<>> /\ diag[1] = 228) =>
          /\ hpc = "exited"
          /\ diag[2] = "kernUpdateAcc failed!"
          /\ \A k \in Kernels("kernUpdateAcc") \cup Kernels("kernUpdateVelPos") :
                stream[k].tick < ticks
          /\ \A i \in Bodies : posVer[i] < ticks /\ velVer[i] < ticks /\ accVer[i] < ticks

\* C14: if the launch of kernUpdateAcc is reported as failed, the next step of
\* the host prints the diagnostic with the operation "kernUpdateAcc failed!"
\* and line 228 and exits; kernUpdateVelPos is launched only after a force
\* evaluation of the same tick was launched, and after such an exit no
\* velocity or position has been integrated in that tick.
C14_FailedForceLaunchAborts ==
    /\ []C14_NoIntegrationAfterFailure
    /\ [][(hpc = "L228" /\ lastError # "cudaSuccess" /\ hpc' # hpc) =>
            /\ hpc' = "exited"
            /\ diag' = <<228, "kernUpdateAcc failed!", lastError>>
            /\ stream' = stream]_vars

\* The launch of kernUpdateAcc in the first tick failed: the process has
\* exited with the diagnostic, positions and velocities as initialized.
C14_Witness ==
    /\ hpc = "exited"
    /\ diag # <<>>
    /\ diag[1] = 228
    /\ ticks = 1
    /\ \A i \in Bodies : posVer[i] = 0 /\ velVer[i] = 0 /\ accVer[i] = 0

\* The bodies whose thread takes the step
Moved ==
    {i \in Bodies :
       \E k \in 1 .. Len(stream) :
         /\ Len(stream') = Len(stream)
         /\ i \in DOMAIN stream[k].thr
         /\ stream'[k].thr[i] # stream[k].thr[i]}

\* The bodies of which the step changes an array element
Written ==
    {j \in Bodies :
       dev_pos'[j] # dev_pos[j] \/ dev_vel'[j] # dev_vel[j] \/ dev_acc'[j] # dev_acc[j]}

\* All threads of the kernel have returned.
AllDone(k) == \A i \in DOMAIN stream[k].thr : stream[k].thr[i].pc = "done"

\* The arrays a kernel leaves are a function of the arrays it started from.
C15_KernelOutcome ==
    \A k \in 1 .. Len(stream) :
      LET e == stream[k] IN
      (MayRun(k) /\ AllDone(k)) =>
        \A i \in Bodies :
          /\ e.kern = "kernGenerateRandomPosArray" =>
                dev_pos[i] = RandomPos(RandOf(e.time, i), e.scale)
          /\ e.kern = "kernGenerateCircularVelArray" =>
                dev_vel[i] = CircularVel(posHist[i][1])
          /\ e.kern = "kernUpdateAcc" =>
                dev_acc[i] = accelerate(e.N, i, [j \in Bodies |-> posHist[j][e.tick]])
          /\ e.kern = "kernUpdateVelPos" =>
                /\ dev_vel[i] = NewVel(e.thr[i].vel0, dev_acc[i], e.dt)
                /\ dev_pos[i] = NewPos(posHist[i][e.tick], dev_vel[i], e.dt)
                /\ e.thr[i].pos0 = posHist[i][e.tick]

\* C15: data-race freedom inside each kernel: a step of a kernel thread
\* changes array elements of the thread's own body only, the force kernel
\* (the only one whose threads read elements of other bodies) changes no
\* position, and when all threads of a kernel have returned the arrays are
\* the same function of the arrays at its launch, whatever the interleaving.
C15_NoRaceInsideKernel ==
    /\ []C15_KernelOutcome
    /\ [][hpc' = hpc => Written \subseteq Moved]_vars
    /\ [][hpc' = hpc => Cardinality(Moved) <= 1]_vars
    /\ [][ThreadUpdateAcc => UNCHANGED <<dev_pos, posVer>>]_vars

\* In the force kernel of a tick one thread has stored its acceleration while
\* the thread of another body has not yet read the positions.
C15_Witness ==
    \E k \in Kernels("kernUpdateAcc") : \E i, j \in DOMAIN stream[k].thr :
      /\ MayRun(k)
      /\ i # j
      /\ stream[k].thr[i].pc = "done"
      /\ stream[k].thr[j].pc = "run"
      /\ dev_acc[i] # ZeroVec

\* Every launched kernel has one thread for each index below N, and the other
\* threads of its grid, fewer than a block, have an index of N or more; the
\* grid size is the least number of blocks that covers N threads.
C16_GridCoversBodies ==
    /\ \A N \in 1 .. (3 * blockSize) :
          /\ fullBlocksPerGrid(N) * blockSize >= N
          /\ (fullBlocksPerGrid(N) - 1) * blockSize < N
    /\ \A k \in 1 .. Len(stream) :
          /\ stream[k].N = numObjects
          /\ DOMAIN stream[k].thr = Bodies
          /\ stream[k].idle \in {0, fullBlocksPerGrid(numObjects) * blockSize - numObjects}
          /\ stream[k].idle < blockSize
    /\ "pos" \in allocated => DOMAIN dev_pos = Bodies
    /\ "vel" \in allocated => DOMAIN dev_vel = Bodies
    /\ "acc" \in allocated => DOMAIN dev_acc = Bodies
    /\ numObjects > 0 => DOMAIN posVer = Bodies

\* C16: for every launch with grid size ceil(N / blockSize) each index in
\* [0, N) is processed by exactly one thread, which never runs again once it
\* has returned; the threads with an index >= N read and write nothing; the
\* arrays have exactly N elements; and numObjects is assigned by
\* initSimulation only.
C16_OneThreadPerBody ==
    /\ []C16_GridCoversBodies
    /\ [][ThreadsOutOfRange => UNCHANGED <<memVars, histVars, numObjects>>]_vars
    /\ [][\A k \in 1 .. Len(stream) : \A i \in DOMAIN stream[k].thr :
            (stream[k].thr[i].pc = "done" /\ Len(stream') = Len(stream))
              => stream'[k].thr[i].pc = "done"]_vars
    /\ [][numObjects' # numObjects => (hpc = "start" /\ hpc' = "L116")]_vars

\* The threads of all bodies of an integrator launch have returned, and the
\* rest of the block, whose indices are not below N, has yet to return.
C16_Witness ==
    \E k \in Kernels("kernUpdateVelPos") :
      /\ MayRun(k)
      /\ numObjects >= 2
      /\ AllDone(k)
      /\ stream[k].idle = blockSize - numObjects
      /\ \A i \in Bodies : posVer[i] = stream[k].tick

\* The sum over the bodies of S of accelOne(pos[i], pos[j], planetMass)
RECURSIVE PairSum(_, _, _)
PairSum(S, i, pos) ==
    IF S = {} THEN ZeroVec
    ELSE LET j == CHOOSE x \in S : TRUE
         IN VAdd(accelOne(pos[i], pos[j], planetMass), PairSum(S \ {j}, i, pos))

\* The reference sum: the central mass once, every body (i included) once
RefAcc(i, pos) == VAdd(accelOne(pos[i], ZeroVec, starMass), PairSum(DOMAIN pos, i, pos))

\* C17: after kernUpdateAcc, and as long as no position has been advanced,
\* acc[i] equals accelOne(pos[i], origin, starMass) plus the sum over all j in
\* [0, N), j = i included, of accelOne(pos[i], pos[j], planetMass); nothing of
\* what acc[i] held before is in it.
C17_AccIsReferenceSum ==
    \A i \in Bodies :
      (accVer[i] >= 1 /\ \A j \in Bodies : posVer[j] = accVer[i] - 1)
        => dev_acc[i] = RefAcc(i, dev_pos)

\* The force kernel of a tick has written every acc[i]; body 1 is pulled by
\* the central mass and by body 0, and acc held something else before.
C17_Witness ==
    \E k \in Kernels("kernUpdateAcc") :
      /\ MayRun(k)
      /\ AllDone(k)
      /\ numObjects >= 2
      /\ \A i \in Bodies : accVer[i] = stream[k].tick
      /\ ~IsNaN(dev_pos[1]) /\ ~IsNaN(dev_pos[0])
      /\ accelOne(dev_pos[1], dev_pos[0], planetMass) # ZeroVec
      /\ accelOne(dev_pos[1], ZeroVec, starMass) # ZeroVec

\* The positions after t completed ticks
PosAfter(t) == [j \in Bodies |-> posHist[j][t + 1]]

\* C18: export sees whole ticks only: every thread of an export kernel
\* launched after t calls of stepSimulation reads a position that has been
\* integrated exactly t times, while the positions of all bodies are at t
\* integrations, and writes the export of that position; no export thread
\* sees a position of another number of ticks.
C18_ExportSeesWholeTicks ==
    \A k \in Kernels("kernCopyPlanetsToVBO") :
      LET e == stream[k] IN
      \A i \in DOMAIN e.thr :
        e.thr[i].pc = "done" =>
          /\ e.thr[i].seen = {e.tick}
          /\ \A j \in Bodies : posVer[j] = e.tick /\ Len(posHist[j]) = e.tick + 1
          /\ ExportedBody(PosAfter(e.tick), i)

\* An export launched after a tick: the thread of one body has written its
\* slots, the thread of another has not yet read its position.
C18_Witness ==
    \E k \in Kernels("kernCopyPlanetsToVBO") : \E i, j \in DOMAIN stream[k].thr :
      /\ stream[k].tick >= 1
      /\ stream[k].thr[i].pc = "done"
      /\ stream[k].thr[j].pc = "run"
      /\ posHist[i][1] # posHist[i][2]

\* v points from the position p toward the origin: no component has the sign
\* of p's, the dot product is negative, and v is parallel to p up to the
\* rounding of the lattice.
TowardOrigin(v, p) ==
    /\ \A c \in 1 .. 3 : v[c] * p[c] <= 0
    /\ Dot(v, p) < 0
    /\ \A c \in 1 .. 3 :
         Abs(cross(v, p)[c]) <=
           Quot((Abs(v[1]) + Abs(v[2]) + Abs(v[3])) * (Abs(p[1]) + Abs(p[2]) + Abs(p[3])), 100)

\* C19: the guard on the squared distance is applied to the term of the
\* central mass: for a body whose squared distance from the origin is at most
\* 0.1 the acceleration kernUpdateAcc computes is the sum of the pairwise
\* terms alone, and for a body whose squared distance is above 0.1 it is that
\* sum plus a non-zero vector directed toward the origin.
C19_CentralTermGuarded ==
    \A k \in Kernels("kernUpdateAcc") : \A i \in DOMAIN stream[k].thr :
      LET t == stream[k].thr[i]
          pairs == PairSum(DOMAIN dev_pos, i, dev_pos)
      IN (MayRun(k) /\ t.pc # "run" /\ ~IsNaN(t.planet)) =>
           /\ t.planet = dev_pos[i]
           /\ ~IsNaN(t.total)
           /\ t.pc = "done" => dev_acc[i] = t.total
           /\ IF WithinThreshold(t.planet, ZeroVec)
              THEN t.total = pairs
              ELSE /\ t.total # pairs
                   /\ TowardOrigin(VSub(t.total, pairs), t.planet)

\* A body off the origin, at a squared distance of at most 0.1 from it, has
\* been given an acceleration without any pull of the central mass.
C19_Witness ==
    \E k \in Kernels("kernUpdateAcc") : \E i \in DOMAIN stream[k].thr :
      /\ stream[k].thr[i].pc = "done"
      /\ dev_pos[i] # ZeroVec
      /\ ~IsNaN(dev_pos[i])
      /\ WithinThreshold(dev_pos[i], ZeroVec)
      /\ dev_acc[i] = PairSum(DOMAIN dev_pos, i, dev_pos)

====
